---- MODULE Spec2Model ----
(***************************************************************************)
(* Model of prb (parallel read benchmark), src/main.go.                    *)
(*                                                                         *)
(* One process (main, which runs traverse inline) and the goroutines that  *)
(* traverse starts: `workers` readFile goroutines, one walk goroutine and  *)
(* one anonymous aggregator goroutine.  They communicate over the two      *)
(* buffered channels ch (paths) and statsCh (Stats) and the two            *)
(* sync.WaitGroups wg and statsWg.                                         *)
(*                                                                         *)
(* The directory tree is given as the sequence of calls filepath.Walk      *)
(* makes to the callback of walk, in walk order: each entry is a regular   *)
(* file, a directory, some other kind of entry (symlink, device, ...) or   *)
(* an entry for which Walk passes err != nil.  The first entry is the      *)
(* root; a root that is no directory is the only entry.  A directory that  *)
(* cannot be listed is one call with err != nil, or, with a filepath.Walk  *)
(* that calls the callback before it reads the directory, a call for the   *)
(* directory followed by a second call for it with the error.              *)
(*                                                                         *)
(* The progress line of readFile (main.go:45-48) writes to stderr only and *)
(* reads the clock only; it changes nothing the model keeps.  The elapsed  *)
(* time and bandwidth columns of the output row are left out of the row.   *)
(***************************************************************************)
EXTENDS Integers, Sequences, FiniteSets

(* ---- bounds of the model ---- *)

\* largest worker count tried (the -workers flag, main.go:22, is any int)
MaxWorkers == 2
\* largest number of callback invocations of one walk
MaxEntries == 3
\* capacity of ch, make(chan string, 100) at main.go:104, scaled down
TaskCap == 1
\* capacity of statsCh, make(chan Stats, 100) at main.go:105, scaled down
StatsCap == 1
\* largest number of positional arguments tried
MaxArgs == 2
\* number of consecutive runs of the process against one output path
MaxRuns == 2
\* largest number of Stats values merged on their own
MaxMerge == 3

(* ---- inputs ---- *)

FileSizes == {1, 2}

\* a regular file: its size and what happens when a worker reads it
FileEntries ==
    {[kind |-> "file", size |-> s, res |-> "ok"] : s \in FileSizes}
    \cup {[kind |-> "file", size |-> 1, res |-> "openfail"],
          [kind |-> "file", size |-> 2, res |-> "readfail"],
          [kind |-> "file", size |-> 2, res |-> "closefail"]}

DirEntry == [kind |-> "dir", size |-> 0, res |-> "na"]
OtherEntry == [kind |-> "other", size |-> 0, res |-> "na"]
ErrEntry == [kind |-> "err", size |-> 0, res |-> "na"]
\* the second call for a directory already handed to the callback: its
\* listing failed
ListErrEntry == [kind |-> "err", size |-> 0, res |-> "listing"]
\* a regular file whose read never returns (a blocking device)
HangEntry == [kind |-> "file", size |-> 1, res |-> "hang"]

Entries == FileEntries \cup {DirEntry, OtherEntry, ErrEntry, ListErrEntry}

\* the walks over the entries E: the root comes first and has children only
\* when it is a directory; a listing error follows the call for its directory
TreesOver(E) ==
    {t \in UNION {[1..n -> E] : n \in 1..MaxEntries} :
        /\ Len(t) > 1 => t[1].kind = "dir"
        /\ \A i \in 1..Len(t) :
              t[i] = ListErrEntry => (i > 1 /\ t[i - 1].kind = "dir")}

Trees == TreesOver(Entries)

\* the walks in which at most one file hangs
HangTrees ==
    {t \in TreesOver(Entries \cup {HangEntry}) :
        Cardinality({i \in 1..Len(t) : t[i] = HangEntry}) <= 1}

WorkerIds == 1..MaxWorkers

(* ---- Stats (main.go:29-39) ---- *)

Stats(f, d, b) == [files |-> f, dirs |-> d, bytes |-> b]

ZeroStats == Stats(0, 0, 0)

\* Add with bytes assigned instead of accumulated (= for +=)
AddAssignsBytes(s, other) ==
    Stats(s.files + other.files, s.dirs + other.dirs, other.bytes)

\* Add without s.dirs += other.dirs
AddWithoutDirs(s, other) ==
    Stats(s.files + other.files, s.dirs, s.bytes + other.bytes)

\* func (s *Stats) Add(other Stats)
Add(s, other) ==
    Stats(s.files + other.files, s.dirs + other.dirs, s.bytes + other.bytes)

(* ---- the output file (main.go:156-186) ---- *)

Header == [line |-> "header"]

DataRow(n, s) ==
    [line |-> "data", workers |-> n, files |-> s.files, dirs |-> s.dirs,
     bytes |-> s.bytes]

\* the flag argument of both os.OpenFile calls: syscall.O_APPEND alone
OutputOpenFlags == {"O_APPEND"}

\* open(2): the access mode is read-only unless O_WRONLY or O_RDWR is given
CanWrite(flags) == "O_WRONLY" \in flags \/ "O_RDWR" \in flags

NilFile == [valid |-> FALSE, writable |-> FALSE]

\* os.OpenFile(outputFile, flags, 0644) on an existing file
OpenFile(flags, ok) ==
    IF ok THEN [valid |-> TRUE, writable |-> CanWrite(flags)] ELSE NilFile

VARIABLES
    workers,      \* the -workers flag
    nargs,        \* len(flag.Args())
    tree,         \* the walk of dir, as the sequence of callback invocations
    run,          \* number of this run of the process (1-based)
    fresh,        \* the output path did not exist before the first run
    pc,           \* position of main / traverse
    exited,       \* the process has ended
    status,       \* its exit status, once exited
    panic,        \* "none", or the runtime panic that ended the process
    outExists,    \* the output file exists
    outLines,     \* its lines
    f,            \* main's *os.File for the output file
    completed,    \* history: runs that reached the end of main
    openFailed,   \* history: some run could not open the existing output file
    spawned,      \* i of the loop at main.go:106
    wg,           \* counter of wg
    statsWg,      \* counter of statsWg
    ch,           \* buffer of ch: indices into tree
    chClosed,
    statsCh,      \* buffer of statsCh
    statsClosed,
    wpc,          \* per worker: "unstarted", "recv", "read", "send", "done"
    wfile,        \* per worker: the task it holds (index into tree), or 0
    wn,           \* per worker: n of io.Copy for the stat it is about to send
    walkPc,       \* "unstarted", "walking", "sendDirs", "closeCh", "done"
    pos,          \* next entry filepath.Walk hands to the callback
    dirs,         \* dirs of walk
    aggPc,        \* "unstarted", "running", "done"
    stats,        \* the named result of traverse, written by the aggregator
    result,       \* stats as main received it from traverse
    errlog,       \* error lines written to stderr
    takes,        \* history: per task, how many times it was received from ch
    emitted,      \* history: tasks the producer has put on ch
    sentCnt,      \* history: number of sends on statsCh
    sentSum,      \* history: field-wise sum of everything sent on statsCh
    mergedCnt,    \* history: number of stats.Add calls of the aggregator
    mergeIn,      \* Stats values handed to Add on their own
    mergeLeft,    \* the indices of mergeIn not merged yet
    mergeTotal    \* the total they are merged into

vars ==
    <<workers, nargs, tree, run, fresh, pc, exited, status, panic, outExists,
      outLines, f, completed, openFailed, spawned, wg, statsWg, ch, chClosed, statsCh, statsClosed,
      wpc, wfile, wn, walkPc, pos, dirs, aggPc, stats, result, errlog,
      takes, emitted, sentCnt, sentSum, mergedCnt, mergeIn, mergeLeft,
      mergeTotal>>

mergeVars == <<mergeIn, mergeLeft, mergeTotal>>
inputVars == <<workers, nargs, tree, run, fresh, mergeVars>>
fileVars == <<outExists, outLines, f, completed, openFailed>>
mainVars == <<pc, exited, status, panic, result>>
workerVars == <<wpc, wfile, wn>>
walkVars == <<walkPc, pos, dirs>>
histVars == <<takes, emitted, sentCnt, sentSum, mergedCnt>>

Alive == ~exited

\* a runtime panic ends the process with exit status 2
Panics(what) ==
    /\ panic' = what
    /\ exited' = TRUE
    /\ status' = 2


(* ---- initial state of a run ---- *)

NoTakes == [i \in 1..MaxEntries |-> 0]

\* nothing is handed to Add on its own
MergeIdle ==
    /\ mergeIn = <<>>
    /\ mergeLeft = {}
    /\ mergeTotal = ZeroStats

\* the start of the first run, given the flags, the arguments, the tree and
\* the output file
RunStart ==
    /\ run = 1
    /\ pc = "args"
    /\ exited = FALSE
    /\ status = 0
    /\ panic = "none"
    /\ fresh = ~outExists
    /\ completed = 0
    /\ openFailed = FALSE
    /\ outLines = IF outExists THEN <<Header>> ELSE <<>>
    /\ f = NilFile
    /\ spawned = 0
    /\ wg = 0
    /\ statsWg = 0
    /\ ch = <<>>
    /\ chClosed = FALSE
    /\ statsCh = <<>>
    /\ statsClosed = FALSE
    /\ wpc = [w \in WorkerIds |-> "unstarted"]
    /\ wfile = [w \in WorkerIds |-> 0]
    /\ wn = [w \in WorkerIds |-> 0]
    /\ walkPc = "unstarted"
    /\ pos = 1
    /\ dirs = 0
    /\ aggPc = "unstarted"
    /\ stats = ZeroStats
    /\ result = ZeroStats
    /\ errlog = {}
    /\ takes = NoTakes
    /\ emitted = {}
    /\ sentCnt = 0
    /\ sentSum = ZeroStats
    /\ mergedCnt = 0

Init ==
    /\ workers \in 0..MaxWorkers
    /\ nargs \in 0..MaxArgs
    /\ tree \in Trees
    /\ outExists \in BOOLEAN
    /\ RunStart
    /\ MergeIdle

(* ---- main before traverse (main.go:147-172) ---- *)

\* main.go:148-151: a wrong number of arguments is a usage error, exit 1
MainArgs ==
    /\ Alive /\ pc = "args"
    /\ IF nargs # 1
       THEN /\ exited' = TRUE
            /\ status' = 1
            /\ pc' = "args"
       ELSE /\ pc' = "openOut"
            /\ UNCHANGED <<exited, status>>
    /\ UNCHANGED <<inputVars, fileVars, panic, result, spawned, wg, statsWg,
                   ch, chClosed, statsCh, statsClosed, workerVars, walkVars,
                   aggPc, stats, errlog, histVars>>

\* main.go:156-170: open the output file; create it with the header when it
\* does not exist (exit 2 when that fails) and open it again; any other
\* failure to open is logged and leaves f nil.  createOk and openOk are the
\* file system's answers.
MainOpenOutput ==
    /\ Alive /\ pc = "openOut"
    /\ \E createOk \in BOOLEAN, openOk \in BOOLEAN :
          IF ~outExists
          THEN IF ~createOk
               THEN /\ exited' = TRUE
                    /\ status' = 2
                    /\ errlog' = errlog \cup {<<"create", 0>>}
                    /\ UNCHANGED <<pc, fileVars>>
               ELSE /\ outExists' = TRUE
                    /\ outLines' = <<Header>>
                    /\ f' = OpenFile(OutputOpenFlags, openOk)
                    /\ openFailed' = (openFailed \/ ~openOk)
                    /\ errlog' = IF openOk THEN errlog
                                 ELSE errlog \cup {<<"openout", 0>>}
                    /\ pc' = "spawn"
                    /\ UNCHANGED <<exited, status, completed>>
          ELSE /\ f' = OpenFile(OutputOpenFlags, openOk)
               /\ openFailed' = (openFailed \/ ~openOk)
               /\ errlog' = IF openOk THEN errlog
                            ELSE errlog \cup {<<"openout", 0>>}
               /\ pc' = "spawn"
               /\ UNCHANGED <<exited, status, outExists, outLines, completed>>
    /\ UNCHANGED <<inputVars, panic, result, spawned, wg, statsWg, ch,
                   chClosed, statsCh, statsClosed, workerVars, walkVars,
                   aggPc, stats, histVars>>

(* ---- traverse (main.go:102-128) ---- *)

\* main.go:106-109: one iteration of the loop: wg.Add(1); go readFile(...)
SpawnWorker ==
    /\ Alive /\ pc = "spawn"
    /\ spawned < workers
    /\ wg' = wg + 1
    /\ wpc' = [wpc EXCEPT ![spawned + 1] = "recv"]
    /\ spawned' = spawned + 1
    /\ UNCHANGED <<inputVars, fileVars, mainVars, statsWg, ch, chClosed,
                   statsCh, statsClosed, wfile, wn, walkVars, aggPc, stats,
                   errlog, histVars>>

\* traverse with go walk(...) placed before the worker loop has ended
StartWalkBeforeWorkers ==
    /\ Alive /\ pc = "spawn"
    /\ walkPc' = "walking"
    /\ pc' = "startAgg"
    /\ UNCHANGED <<inputVars, fileVars, exited, status, panic, result,
                   spawned, wg, statsWg, ch, chClosed, statsCh, statsClosed,
                   workerVars, pos, dirs, aggPc, stats, errlog, histVars>>

\* main.go:106/111: the loop ends; go walk(dir, ch, statsCh)
StartWalk ==
    /\ Alive /\ pc = "spawn"
    /\ ~(spawned < workers)
    /\ walkPc' = "walking"
    /\ pc' = "startAgg"
    /\ UNCHANGED <<inputVars, fileVars, exited, status, panic, result,
                   spawned, wg, statsWg, ch, chClosed, statsCh, statsClosed,
                   workerVars, pos, dirs, aggPc, stats, errlog, histVars>>

\* main.go:113-120: statsWg.Add(1); go func() {...}()
StartAggregator ==
    /\ Alive /\ pc = "startAgg"
    /\ statsWg' = statsWg + 1
    /\ aggPc' = "running"
    /\ pc' = "wgWait"
    /\ UNCHANGED <<inputVars, fileVars, exited, status, panic, result,
                   spawned, wg, ch, chClosed, statsCh, statsClosed,
                   workerVars, walkVars, stats, errlog, histVars>>

\* traverse without wg.Wait()
WgWaitReturnsAtOnce ==
    /\ Alive /\ pc = "wgWait"
    /\ pc' = "closeStats"
    /\ UNCHANGED <<inputVars, fileVars, exited, status, panic, result,
                   spawned, wg, statsWg, ch, chClosed, statsCh, statsClosed,
                   workerVars, walkVars, aggPc, stats, errlog, histVars>>

\* main.go:122: wg.Wait() returns once the counter is zero
WgWait ==
    /\ Alive /\ pc = "wgWait"
    /\ wg = 0
    /\ pc' = "closeStats"
    /\ UNCHANGED <<inputVars, fileVars, exited, status, panic, result,
                   spawned, wg, statsWg, ch, chClosed, statsCh, statsClosed,
                   workerVars, walkVars, aggPc, stats, errlog, histVars>>

\* traverse closing both channels after wg.Wait()
CloseStatsAndTasks ==
    /\ Alive /\ pc = "closeStats"
    /\ IF statsClosed \/ chClosed
       THEN /\ Panics("close of closed channel")
            /\ UNCHANGED <<pc, statsClosed, chClosed>>
       ELSE /\ statsClosed' = TRUE
            /\ chClosed' = TRUE
            /\ pc' = "statsWait"
            /\ UNCHANGED <<exited, status, panic>>
    /\ UNCHANGED <<inputVars, fileVars, result, spawned, wg, statsWg, ch,
                   statsCh, workerVars, walkVars, aggPc, stats, errlog,
                   histVars>>

\* main.go:123: close(statsCh)
CloseStats ==
    /\ Alive /\ pc = "closeStats"
    /\ IF statsClosed
       THEN /\ Panics("close of closed channel")
            /\ UNCHANGED <<pc, statsClosed>>
       ELSE /\ statsClosed' = TRUE
            /\ pc' = "statsWait"
            /\ UNCHANGED <<exited, status, panic>>
    /\ UNCHANGED <<inputVars, fileVars, result, spawned, wg, statsWg, ch,
                   chClosed, statsCh, workerVars, walkVars, aggPc, stats,
                   errlog, histVars>>

\* traverse returning stats without statsWg.Wait()
StatsWgWaitSkipped ==
    /\ Alive /\ pc = "statsWait"
    /\ result' = stats
    /\ pc' = "report"
    /\ UNCHANGED <<inputVars, fileVars, exited, status, panic, spawned, wg,
                   statsWg, ch, chClosed, statsCh, statsClosed, workerVars,
                   walkVars, aggPc, stats, errlog, histVars>>

\* main.go:125-127: statsWg.Wait(); return stats
StatsWgWait ==
    /\ Alive /\ pc = "statsWait"
    /\ statsWg = 0
    /\ result' = stats
    /\ pc' = "report"
    /\ UNCHANGED <<inputVars, fileVars, exited, status, panic, spawned, wg,
                   statsWg, ch, chClosed, statsCh, statsClosed, workerVars,
                   walkVars, aggPc, stats, errlog, histVars>>

(* ---- main after traverse (main.go:174-187) ---- *)

\* main.go:180-186: the row is written when f is a file open for writing
\* (the error of Fprintf is dropped), f is closed (an error is logged), and
\* main returns: exit status 0.
MainReport ==
    /\ Alive /\ pc = "report"
    /\ outLines' = IF f.valid /\ f.writable
                   THEN Append(outLines, DataRow(workers, result))
                   ELSE outLines
    /\ errlog' = IF f.valid THEN errlog ELSE errlog \cup {<<"closeout", 0>>}
    /\ f' = NilFile
    /\ completed' = completed + 1
    /\ exited' = TRUE
    /\ status' = 0
    /\ pc' = "returned"
    /\ UNCHANGED <<inputVars, outExists, openFailed, panic, result, spawned, wg, statsWg,
                   ch, chClosed, statsCh, statsClosed, workerVars, walkVars,
                   aggPc, stats, histVars>>


(* ---- readFile (main.go:41-74) ---- *)

\* readFile that sends the stat of a fully read file although Close failed
ReadOneCountsCloseFailure(e) ==
    CASE e.res = "openfail" -> [log |-> "open", send |-> FALSE, n |-> 0]
      [] e.res = "readfail" -> [log |-> "read", send |-> FALSE, n |-> e.size - 1]
      [] OTHER -> [log |-> "none", send |-> TRUE, n |-> e.size]

\* main.go:50-72 for one file: the line logged, if any, and the stat sent,
\* if any.  A file that fails to open, fails during io.Copy or fails to
\* close is logged and skipped (continue); only a file for which all three
\* succeed yields Stats{files: 1, bytes: n}.
ReadOne(e) ==
    CASE e.res = "openfail" -> [log |-> "open", send |-> FALSE, n |-> 0]
      [] e.res = "readfail" -> [log |-> "read", send |-> FALSE, n |-> e.size - 1]
      [] e.res = "closefail" -> [log |-> "close", send |-> FALSE, n |-> e.size]
      [] OTHER -> [log |-> "none", send |-> TRUE, n |-> e.size]

\* a receive that leaves the path in the queue
WorkerRecvPeek(w) ==
    /\ Alive /\ wpc[w] = "recv"
    /\ ch # <<>>
    /\ wfile' = [wfile EXCEPT ![w] = Head(ch)]
    /\ wpc' = [wpc EXCEPT ![w] = "read"]
    /\ takes' = [takes EXCEPT ![Head(ch)] = @ + 1]
    /\ UNCHANGED <<inputVars, fileVars, mainVars, spawned, wg, statsWg, ch,
                   chClosed, statsCh, statsClosed, wn, walkVars, aggPc, stats,
                   errlog, emitted, sentCnt, sentSum, mergedCnt>>

\* workers that read one at a time: no path is received while another
\* worker is inside a read
WorkerRecvSerialized(w) ==
    /\ Alive /\ wpc[w] = "recv"
    /\ ch # <<>>
    /\ \A v \in WorkerIds : wpc[v] # "read"
    /\ wfile' = [wfile EXCEPT ![w] = Head(ch)]
    /\ ch' = Tail(ch)
    /\ wpc' = [wpc EXCEPT ![w] = "read"]
    /\ takes' = [takes EXCEPT ![Head(ch)] = @ + 1]
    /\ UNCHANGED <<inputVars, fileVars, mainVars, spawned, wg, statsWg,
                   chClosed, statsCh, statsClosed, wn, walkVars, aggPc, stats,
                   errlog, emitted, sentCnt, sentSum, mergedCnt>>

\* main.go:44: for filename := range ch, a path is received
WorkerRecv(w) ==
    /\ Alive /\ wpc[w] = "recv"
    /\ ch # <<>>
    /\ wfile' = [wfile EXCEPT ![w] = Head(ch)]
    /\ ch' = Tail(ch)
    /\ wpc' = [wpc EXCEPT ![w] = "read"]
    /\ takes' = [takes EXCEPT ![Head(ch)] = @ + 1]
    /\ UNCHANGED <<inputVars, fileVars, mainVars, spawned, wg, statsWg,
                   chClosed, statsCh, statsClosed, wn, walkVars, aggPc, stats,
                   errlog, emitted, sentCnt, sentSum, mergedCnt>>

\* a worker that leaves its loop as soon as ch is closed, drained or not
WorkerExitOnClose(w) ==
    /\ Alive /\ wpc[w] = "recv"
    /\ chClosed
    /\ wpc' = [wpc EXCEPT ![w] = "done"]
    /\ wg' = wg - 1
    /\ UNCHANGED <<inputVars, fileVars, mainVars, spawned, statsWg, ch,
                   chClosed, statsCh, statsClosed, wfile, wn, walkVars, aggPc,
                   stats, errlog, histVars>>

\* main.go:44/42: ch is closed and drained; the loop ends; defer wg.Done()
WorkerExit(w) ==
    /\ Alive /\ wpc[w] = "recv"
    /\ ch = <<>> /\ chClosed
    /\ wpc' = [wpc EXCEPT ![w] = "done"]
    /\ wg' = wg - 1
    /\ UNCHANGED <<inputVars, fileVars, mainVars, spawned, statsWg, ch,
                   chClosed, statsCh, statsClosed, wfile, wn, walkVars, aggPc,
                   stats, errlog, histVars>>

\* a worker that returns from readFile at the first failure
WorkerReadReturnsOnError(w) ==
    /\ Alive /\ wpc[w] = "read"
    /\ tree[wfile[w]].res # "hang"
    /\ LET r == ReadOne(tree[wfile[w]])
       IN  IF r.send
           THEN /\ wpc' = [wpc EXCEPT ![w] = "send"]
                /\ wn' = [wn EXCEPT ![w] = r.n]
                /\ UNCHANGED <<wfile, errlog, wg>>
           ELSE /\ wpc' = [wpc EXCEPT ![w] = "done"]
                /\ wg' = wg - 1
                /\ errlog' = errlog \cup {<<r.log, wfile[w]>>}
                /\ wfile' = [wfile EXCEPT ![w] = 0]
                /\ UNCHANGED wn
    /\ UNCHANGED <<inputVars, fileVars, mainVars, spawned, statsWg, ch,
                   chClosed, statsCh, statsClosed, walkVars, aggPc, stats,
                   histVars>>

\* main.go:50-67: open, read to EOF, close; the read of a file that hangs
\* never returns
WorkerRead(w) ==
    /\ Alive /\ wpc[w] = "read"
    /\ tree[wfile[w]].res # "hang"
    /\ LET r == ReadOne(tree[wfile[w]])
       IN  IF r.send
           THEN /\ wpc' = [wpc EXCEPT ![w] = "send"]
                /\ wn' = [wn EXCEPT ![w] = r.n]
                /\ UNCHANGED <<wfile, errlog>>
           ELSE /\ wpc' = [wpc EXCEPT ![w] = "recv"]
                /\ errlog' = errlog \cup {<<r.log, wfile[w]>>}
                /\ wfile' = [wfile EXCEPT ![w] = 0]
                /\ UNCHANGED wn
    /\ UNCHANGED <<inputVars, fileVars, mainVars, spawned, wg, statsWg, ch,
                   chClosed, statsCh, statsClosed, walkVars, aggPc, stats,
                   histVars>>

\* main.go:69-72: stats <- Stats{files: 1, bytes: n}; blocks while statsCh is
\* full; a send on a closed channel panics
WorkerSend(w) ==
    /\ Alive /\ wpc[w] = "send"
    /\ IF statsClosed
       THEN /\ Panics("send on closed channel")
            /\ UNCHANGED <<pc, result, statsCh, workerVars, sentCnt, sentSum>>
       ELSE /\ Len(statsCh) < StatsCap
            /\ statsCh' = Append(statsCh, Stats(1, 0, wn[w]))
            /\ sentCnt' = sentCnt + 1
            /\ sentSum' = Add(sentSum, Stats(1, 0, wn[w]))
            /\ wpc' = [wpc EXCEPT ![w] = "recv"]
            /\ wfile' = [wfile EXCEPT ![w] = 0]
            /\ wn' = [wn EXCEPT ![w] = 0]
            /\ UNCHANGED mainVars
    /\ UNCHANGED <<inputVars, fileVars, spawned, wg, statsWg, ch, chClosed,
                   statsClosed, walkVars, aggPc, stats, errlog, takes,
                   emitted, mergedCnt>>

(* ---- walk (main.go:76-100) ---- *)

\* walk returning right after it logged the error of filepath.Walk
WalkStepReturnsAfterError ==
    /\ Alive /\ walkPc = "walking"
    /\ LET e == tree[pos]
           next == IF pos = Len(tree) THEN "sendDirs" ELSE "walking"
       IN  CASE e.kind = "err" ->
                  /\ errlog' = errlog \cup {<<"walk", pos>>}
                  /\ walkPc' = "closeCh"
                  /\ UNCHANGED <<pos, dirs, ch, emitted, exited, status, panic>>
             [] e.kind = "file" ->
                  IF chClosed
                  THEN /\ Panics("send on closed channel")
                       /\ UNCHANGED <<walkVars, ch, emitted, errlog>>
                  ELSE /\ Len(ch) < TaskCap
                       /\ ch' = Append(ch, pos)
                       /\ emitted' = emitted \cup {pos}
                       /\ pos' = pos + 1
                       /\ walkPc' = next
                       /\ UNCHANGED <<dirs, errlog, exited, status, panic>>
             [] e.kind = "dir" ->
                  /\ dirs' = dirs + 1
                  /\ pos' = pos + 1
                  /\ walkPc' = next
                  /\ UNCHANGED <<ch, emitted, errlog, exited, status, panic>>
             [] OTHER ->
                  /\ pos' = pos + 1
                  /\ walkPc' = next
                  /\ UNCHANGED <<dirs, ch, emitted, errlog, exited, status, panic>>
    /\ UNCHANGED <<inputVars, fileVars, pc, result, spawned, wg, statsWg,
                   chClosed, statsCh, statsClosed, workerVars, aggPc, stats,
                   takes, sentCnt, sentSum, mergedCnt>>

\* main.go:79-93: filepath.Walk calls the callback for the next entry.  The
\* callback returns err when it is given one, which ends the whole walk
\* (main.go:80-82, then the error is logged at main.go:95-97); it sends a
\* regular file on ch, blocking while ch is full (main.go:84-86); it counts
\* a directory (main.go:88-90).  After the last entry Walk returns nil.
WalkStep ==
    /\ Alive /\ walkPc = "walking"
    /\ LET e == tree[pos]
           next == IF pos = Len(tree) THEN "sendDirs" ELSE "walking"
       IN  CASE e.kind = "err" ->
                  /\ errlog' = errlog \cup {<<"walk", pos>>}
                  /\ walkPc' = "sendDirs"
                  /\ UNCHANGED <<pos, dirs, ch, emitted, exited, status, panic>>
             [] e.kind = "file" ->
                  IF chClosed
                  THEN /\ Panics("send on closed channel")
                       /\ UNCHANGED <<walkVars, ch, emitted, errlog>>
                  ELSE /\ Len(ch) < TaskCap
                       /\ ch' = Append(ch, pos)
                       /\ emitted' = emitted \cup {pos}
                       /\ pos' = pos + 1
                       /\ walkPc' = next
                       /\ UNCHANGED <<dirs, errlog, exited, status, panic>>
             [] e.kind = "dir" ->
                  /\ dirs' = dirs + 1
                  /\ pos' = pos + 1
                  /\ walkPc' = next
                  /\ UNCHANGED <<ch, emitted, errlog, exited, status, panic>>
             [] OTHER ->
                  /\ pos' = pos + 1
                  /\ walkPc' = next
                  /\ UNCHANGED <<dirs, ch, emitted, errlog, exited, status, panic>>
    /\ UNCHANGED <<inputVars, fileVars, pc, result, spawned, wg, statsWg,
                   chClosed, statsCh, statsClosed, workerVars, aggPc, stats,
                   takes, sentCnt, sentSum, mergedCnt>>

\* main.go:99: stats <- Stats{dirs: dirs}; blocks while statsCh is full; a
\* send on a closed channel panics
WalkSendDirs ==
    /\ Alive /\ walkPc = "sendDirs"
    /\ IF statsClosed
       THEN /\ Panics("send on closed channel")
            /\ UNCHANGED <<statsCh, walkPc, sentCnt, sentSum>>
       ELSE /\ Len(statsCh) < StatsCap
            /\ statsCh' = Append(statsCh, Stats(0, dirs, 0))
            /\ sentCnt' = sentCnt + 1
            /\ sentSum' = Add(sentSum, Stats(0, dirs, 0))
            /\ walkPc' = "closeCh"
            /\ UNCHANGED <<exited, status, panic>>
    /\ UNCHANGED <<inputVars, fileVars, pc, result, spawned, wg, statsWg, ch,
                   chClosed, statsClosed, workerVars, pos, dirs, aggPc, stats,
                   errlog, takes, emitted, mergedCnt>>

\* walk without the deferred close(ch)
WalkReturnsWithoutClose ==
    /\ Alive /\ walkPc = "closeCh"
    /\ walkPc' = "done"
    /\ UNCHANGED <<inputVars, fileVars, mainVars, spawned, wg, statsWg, ch,
                   chClosed, statsCh, statsClosed, workerVars, pos, dirs,
                   aggPc, stats, errlog, histVars>>

\* main.go:77: defer close(ch), run when walk returns
WalkClose ==
    /\ Alive /\ walkPc = "closeCh"
    /\ IF chClosed
       THEN /\ Panics("close of closed channel")
            /\ UNCHANGED <<chClosed, walkPc>>
       ELSE /\ chClosed' = TRUE
            /\ walkPc' = "done"
            /\ UNCHANGED <<exited, status, panic>>
    /\ UNCHANGED <<inputVars, fileVars, pc, result, spawned, wg, statsWg, ch,
                   statsCh, statsClosed, workerVars, pos, dirs, aggPc, stats,
                   errlog, histVars>>

(* ---- the aggregator goroutine (main.go:115-120) ---- *)

\* main.go:117-119: for s := range statsCh { stats.Add(s) }
AggRecv ==
    /\ Alive /\ aggPc = "running"
    /\ statsCh # <<>>
    /\ stats' = Add(stats, Head(statsCh))
    /\ statsCh' = Tail(statsCh)
    /\ mergedCnt' = mergedCnt + 1
    /\ UNCHANGED <<inputVars, fileVars, mainVars, spawned, wg, statsWg, ch,
                   chClosed, statsClosed, workerVars, walkVars, aggPc, errlog,
                   takes, emitted, sentCnt, sentSum>>

\* an aggregator that stops as soon as statsCh is closed, drained or not
AggExitOnClose ==
    /\ Alive /\ aggPc = "running"
    /\ statsClosed
    /\ aggPc' = "done"
    /\ statsWg' = statsWg - 1
    /\ UNCHANGED <<inputVars, fileVars, mainVars, spawned, wg, ch, chClosed,
                   statsCh, statsClosed, workerVars, walkVars, stats, errlog,
                   histVars>>

\* main.go:117/116: statsCh is closed and drained; defer statsWg.Done()
AggExit ==
    /\ Alive /\ aggPc = "running"
    /\ statsCh = <<>> /\ statsClosed
    /\ aggPc' = "done"
    /\ statsWg' = statsWg - 1
    /\ UNCHANGED <<inputVars, fileVars, mainVars, spawned, wg, ch, chClosed,
                   statsCh, statsClosed, workerVars, walkVars, stats, errlog,
                   histVars>>

(* ---- specifications ---- *)

Worker(w) ==
    WorkerRecv(w) \/ WorkerExit(w) \/ WorkerRead(w) \/ WorkerSend(w)

Walk == WalkStep \/ WalkSendDirs \/ WalkClose

Aggregator == AggRecv \/ AggExit

Main ==
    \/ MainArgs \/ MainOpenOutput
    \/ SpawnWorker \/ StartWalk \/ StartAggregator
    \/ WgWait \/ CloseStats \/ StatsWgWait
    \/ MainReport

Next ==
    \/ Main
    \/ \E w \in WorkerIds : Worker(w)
    \/ Walk
    \/ Aggregator

\* one run of the process
Spec == Init /\ [][Next]_vars


\* the process is started again on the same directory and output path
\* (README.md: the benchmark loop runs prb once per worker count); only the
\* output file outlives a run
Rerun ==
    /\ exited
    /\ run < MaxRuns
    /\ run' = run + 1
    /\ workers' \in 0..MaxWorkers
    /\ nargs' \in 0..MaxArgs
    /\ pc' = "args"
    /\ exited' = FALSE
    /\ status' = 0
    /\ panic' = "none"
    /\ f' = NilFile
    /\ spawned' = 0
    /\ wg' = 0
    /\ statsWg' = 0
    /\ ch' = <<>>
    /\ chClosed' = FALSE
    /\ statsCh' = <<>>
    /\ statsClosed' = FALSE
    /\ wpc' = [w \in WorkerIds |-> "unstarted"]
    /\ wfile' = [w \in WorkerIds |-> 0]
    /\ wn' = [w \in WorkerIds |-> 0]
    /\ walkPc' = "unstarted"
    /\ pos' = 1
    /\ dirs' = 0
    /\ aggPc' = "unstarted"
    /\ stats' = ZeroStats
    /\ result' = ZeroStats
    /\ errlog' = {}
    /\ takes' = NoTakes
    /\ emitted' = {}
    /\ sentCnt' = 0
    /\ sentSum' = ZeroStats
    /\ mergedCnt' = 0
    /\ UNCHANGED <<tree, fresh, outExists, outLines, completed, openFailed,
                   mergeVars>>

NextRuns == Next \/ Rerun

\* up to MaxRuns runs of the process, one after the other
SpecRuns == Init /\ [][NextRuns]_vars

\* the runs that reach traverse by the shortest way: one argument and an
\* output file that exists (traverse reads neither)
InitTraverse == Init /\ nargs = 1 /\ outExists

\* one run under the Go scheduler: while some goroutine can take a step, a
\* step is eventually taken (the weakest fairness; fairness to each single
\* goroutine implies it)
SpecFair ==
    /\ InitTraverse /\ [][Next]_vars
    /\ WF_vars(Next)

(* ---- vocabulary of the properties ---- *)

RECURSIVE SumSizes(_, _)
\* sum of the sizes of the entries of t at the indices in S
SumSizes(t, S) ==
    IF S = {} THEN 0
    ELSE LET i == CHOOSE x \in S : TRUE
         IN  t[i].size + SumSizes(t, S \ {i})

Indices(t) == 1..Len(t)
FilesOf(t) == {i \in Indices(t) : t[i].kind = "file"}
DirsOf(t) == {i \in Indices(t) : t[i].kind = "dir"}
ErrsOf(t) == {i \in Indices(t) : t[i].kind = "err"}
OkFilesOf(t) == {i \in FilesOf(t) : t[i].res = "ok"}
FailedFilesOf(t) == FilesOf(t) \ OkFilesOf(t)

\* the entries handed to the callback before the first entry with an error
BeforeError(t) == {i \in Indices(t) : \A j \in 1..i : t[j].kind # "err"}

\* traverse has returned to main
TraverseReturned == pc \in {"report", "returned"}

\* traverse has been called
InTraverse == pc \in {"spawn", "startAgg", "wgWait", "closeStats", "statsWait"}


(* ---- C1 ---- *)

\* every regular file of the tree is readable and the walk meets no error
AllReadable(t) == ErrsOf(t) = {} /\ FailedFilesOf(t) = {}

\* C1 (conservation): when traverse has returned from a tree whose F regular
\* files are all read successfully, with at least one worker, its result is
\* files = F, dirs = the number of directories, bytes = the sum of the
\* sizes of the files; whatever the interleaving, and also when F exceeds
\* the capacity of ch or of statsCh.
Conservation ==
    (workers >= 1 /\ TraverseReturned /\ AllReadable(tree)) =>
        result = Stats(Cardinality(FilesOf(tree)),
                       Cardinality(DirsOf(tree)),
                       SumSizes(tree, FilesOf(tree)))

\* traverse has returned the totals of a tree with more files than either
\* queue holds
ConservationWitness ==
    /\ workers >= 1 /\ TraverseReturned /\ AllReadable(tree)
    /\ Cardinality(FilesOf(tree)) > TaskCap
    /\ Cardinality(FilesOf(tree)) > StatsCap
    /\ result.files = Cardinality(FilesOf(tree))
    /\ result.dirs >= 1
    /\ result.bytes > result.files

(* ---- C2 ---- *)

\* some goroutine of a started traversal can take a step
CanStep == ENABLED Next

\* C2 (termination without deadlock): with at least one worker, a traversal
\* that has started never reaches a state in which no goroutine can take a
\* step before traverse has returned, and under fair scheduling traverse
\* eventually returns, whatever open, read, close and walk errors occur.
Termination ==
    /\ []((workers >= 1 /\ InTraverse) => CanStep)
    /\ ((workers >= 1 /\ InTraverse) ~> TraverseReturned)

\* traverse has returned from a run in which a file failed and the walk
\* met an error
TerminationWitness ==
    /\ workers >= 1 /\ TraverseReturned
    /\ \E i \in FailedFilesOf(tree) : takes[i] > 0
    /\ \E i \in ErrsOf(tree) : <<"walk", i>> \in errlog

(* ---- C3 ---- *)

\* C3 (exactly-once task delivery): a path is received from ch at most once
\* and only after the producer sent it; no two workers hold the same path;
\* once traverse has returned (at least one worker) every path the producer
\* sent has been received exactly once and ch is empty.
ExactlyOnce ==
    /\ \A i \in 1..MaxEntries :
          /\ takes[i] <= 1
          /\ takes[i] > 0 => i \in emitted
    /\ \A v, w \in WorkerIds : (v # w /\ wfile[v] # 0) => wfile[v] # wfile[w]
    /\ (workers >= 1 /\ TraverseReturned) =>
          /\ ch = <<>>
          /\ \A i \in emitted : takes[i] = 1

\* two paths were sent and two workers hold one each, both received once
ExactlyOnceWitness ==
    \E v, w \in WorkerIds :
        /\ v # w
        /\ wfile[v] # 0 /\ wfile[w] # 0
        /\ {wfile[v], wfile[w]} \subseteq emitted
        /\ takes[wfile[v]] = 1 /\ takes[wfile[w]] = 1

(* ---- C4 ---- *)

\* the files a worker received and read successfully
ReadOk == {i \in OkFilesOf(tree) : takes[i] > 0}

\* the files a worker received and failed to open, read or close
ReadFailed == {i \in FailedFilesOf(tree) : takes[i] > 0}

\* C4 (fault isolation): once traverse has returned (at least one worker),
\* files is the number of files that were opened, read and closed
\* successfully and bytes the sum of their sizes; each file that failed was
\* logged and adds nothing; and when the walk met no error, every readable
\* file of the tree is among the files counted.
FaultIsolation ==
    (workers >= 1 /\ TraverseReturned) =>
        /\ result.files = Cardinality(ReadOk)
        /\ result.bytes = SumSizes(tree, ReadOk)
        /\ \A i \in ReadFailed : \E k \in {"open", "read", "close"} : <<k, i>> \in errlog
        /\ ErrsOf(tree) = {} =>
              /\ ReadOk = OkFilesOf(tree)
              /\ ReadFailed = FailedFilesOf(tree)

\* a tree with one file that fails and one that is read: one file counted
FaultIsolationWitness ==
    /\ workers >= 1 /\ TraverseReturned
    /\ ErrsOf(tree) = {}
    /\ Cardinality(FailedFilesOf(tree)) = 1
    /\ Cardinality(OkFilesOf(tree)) = 1
    /\ result.files = 1
    /\ result.bytes = SumSizes(tree, OkFilesOf(tree))

(* ---- C5 ---- *)

\* the totals of a tree, from the tree alone: the readable files and the
\* directories the walk reaches
Expected(t) ==
    Stats(Cardinality(OkFilesOf(t) \cap BeforeError(t)),
          Cardinality(DirsOf(t) \cap BeforeError(t)),
          SumSizes(t, OkFilesOf(t) \cap BeforeError(t)))

\* C5 (worker-count invariance): the result of traverse is a function of
\* the tree and of the outcome of each access alone: for every worker count
\* >= 1 and every interleaving it is Expected(tree).
WorkerCountInvariance ==
    (workers >= 1 /\ TraverseReturned) => result = Expected(tree)

\* the largest worker count has returned the totals of a tree with two
\* readable files
WorkerCountInvarianceWitness ==
    /\ workers = MaxWorkers /\ workers > 1 /\ TraverseReturned
    /\ Cardinality(OkFilesOf(tree)) >= 2
    /\ result = Expected(tree)
    /\ \A i \in OkFilesOf(tree) : takes[i] = 1

(* ---- C6 ---- *)

\* C6 (no lost stats): with at least one worker, statsCh is closed only when
\* every worker has left its loop and the producer has sent its directory
\* count; a stat is merged at most once; and once traverse has returned,
\* every stat sent has been merged: the result is the sum of all stats sent.
NoLostStats ==
    workers >= 1 =>
        /\ statsClosed =>
              /\ \A w \in 1..workers : wpc[w] = "done"
              /\ walkPc \in {"closeCh", "done"}
        /\ mergedCnt + Len(statsCh) = sentCnt
        /\ TraverseReturned =>
              /\ statsCh = <<>>
              /\ mergedCnt = sentCnt
              /\ result = sentSum

\* traverse has returned after merging the stats of two workers and the
\* directory count
NoLostStatsWitness ==
    /\ workers >= 1 /\ TraverseReturned
    /\ sentCnt >= 3 /\ mergedCnt = sentCnt
    /\ result.dirs >= 1 /\ result.files >= 2


(* ---- C7 ---- *)

\* C7 (a traversal error aborts only the affected sub-path): once traverse
\* has returned (at least one worker), every regular file of the tree that is
\* not itself the entry with the error, the files the walk would visit after
\* that entry included, has been sent as a task, and the readable ones are
\* all counted.
ErrorAbortsSubPathOnly ==
    (workers >= 1 /\ TraverseReturned) =>
        /\ FilesOf(tree) \subseteq emitted
        /\ result.files = Cardinality(OkFilesOf(tree))

(* ---- C8 ---- *)

\* C8 (traverse has no failure mode of its own): for every worker count
\* >= 0 no goroutine ever sends on a closed channel or closes a channel a
\* second time.
NoChannelPanic == panic = "none"

(* ---- C9 ---- *)

\* C9 (output log shape): after k >= 1 completed runs against an output
\* path that did not exist before the first run (and that every run could
\* open), the last of them with at least one worker, the log is one header
\* line followed by exactly k data lines.
LogShape ==
    (fresh /\ ~openFailed /\ workers >= 1 /\ pc = "returned" /\ completed >= 1) =>
        /\ Len(outLines) = 1 + completed
        /\ outLines[1] = Header
        /\ \A k \in 2..Len(outLines) : outLines[k].line = "data"

(* ---- C10 ---- *)

\* the whole traversal has run: every goroutine of traverse has finished
TraversalComplete ==
    /\ pc = "returned"
    /\ walkPc = "done"
    /\ aggPc = "done"
    /\ \A w \in 1..workers : wpc[w] = "done"

\* C10 (exit status): the process exits with 1 exactly when the number of
\* arguments is not 1, with 2 exactly when the output file did not exist
\* and could not be created, both before any goroutine of a traversal is
\* started; every other run ends with status 0 after the whole traversal.
ExitStatus ==
    exited =>
        /\ status = 1 <=> nargs # 1
        /\ status = 2 <=> (nargs = 1 /\ <<"create", 0>> \in errlog)
        /\ status \in {1, 2} => (spawned = 0 /\ walkPc = "unstarted")
        /\ status \notin {1, 2} => (status = 0 /\ TraversalComplete)


(* ---- Stats.Add on its own (main.go:35-39) ---- *)

\* the Stats values merged: any counts, not only those traverse produces
StatsValues == {Stats(n, d, b) : n \in 0..1, d \in 0..1, b \in {0, 2}}

\* a sequence of up to MaxMerge Stats values is to be merged into a zero
\* total; the process itself has not started
InitMerge ==
    /\ workers = 0
    /\ nargs = 0
    /\ tree = <<DirEntry>>
    /\ outExists = FALSE
    /\ RunStart
    /\ mergeIn \in UNION {[1..n -> StatsValues] : n \in 0..MaxMerge}
    /\ mergeLeft = 1..Len(mergeIn)
    /\ mergeTotal = ZeroStats

\* main.go:118: total.Add(s) for any one of the values not merged yet
MergeOne ==
    /\ \E i \in mergeLeft :
          /\ mergeTotal' = Add(mergeTotal, mergeIn[i])
          /\ mergeLeft' = mergeLeft \ {i}
    /\ UNCHANGED <<workers, nargs, tree, run, fresh, mergeIn, fileVars,
                   mainVars, spawned, wg, statsWg, ch, chClosed, statsCh,
                   statsClosed, workerVars, walkVars, aggPc, stats, errlog,
                   histVars>>

\* the values are merged one by one, in any order
SpecMerge == InitMerge /\ [][MergeOne]_vars

(* ---- C11 ---- *)

RECURSIVE SumStats(_, _)
\* the field-wise sums of the values of q at the indices in S
SumStats(q, S) ==
    IF S = {} THEN [files |-> 0, dirs |-> 0, bytes |-> 0]
    ELSE LET i == CHOOSE x \in S : TRUE
             rest == SumStats(q, S \ {i})
         IN  [files |-> q[i].files + rest.files,
              dirs |-> q[i].dirs + rest.dirs,
              bytes |-> q[i].bytes + rest.bytes]

\* C11 (merge is commutative and associative): in whatever order the values
\* of a finite sequence of Stats are added to a zero total, the total after
\* any of them is the field-wise sum of those added so far; after the last
\* one it is the field-wise sum of all, so every order gives the same total.
MergeOrderIndependent ==
    mergeTotal = SumStats(mergeIn, (1..Len(mergeIn)) \ mergeLeft)

\* MaxMerge values, not all equal, have all been merged
MergeOrderIndependentWitness ==
    /\ Len(mergeIn) = MaxMerge /\ Len(mergeIn) >= 2
    /\ mergeLeft = {}
    /\ mergeIn[1] # mergeIn[2]
    /\ mergeTotal.files > 0 /\ mergeTotal.dirs > 0 /\ mergeTotal.bytes > 0


(* ---- C12 ---- *)

AllWorkersDone == \A w \in 1..workers : wpc[w] = "done"

\* C12 (two-phase shutdown ordering): with at least one worker, a worker has
\* left its loop only when ch is closed and drained; the orchestrator is
\* past wg.Wait() only when every worker has left; statsCh is closed only
\* by then; the aggregator has finished only when statsCh is closed and
\* drained; and traverse has returned only when the aggregator has
\* finished.  Each event of the chain has all earlier ones behind it.
ShutdownOrder ==
    workers >= 1 =>
        /\ (\E w \in 1..workers : wpc[w] = "done") => (chClosed /\ ch = <<>>)
        /\ pc \in {"closeStats", "statsWait", "report", "returned"} =>
              AllWorkersDone
        /\ statsClosed =>
              (pc \in {"statsWait", "report", "returned"} /\ AllWorkersDone)
        /\ aggPc = "done" => (statsClosed /\ statsCh = <<>>)
        /\ TraverseReturned => aggPc = "done"

\* the whole chain has happened with the largest worker count and tasks
ShutdownOrderWitness ==
    /\ workers = MaxWorkers /\ TraverseReturned
    /\ chClosed /\ AllWorkersDone /\ statsClosed /\ aggPc = "done"
    /\ Cardinality(emitted) >= 2
    /\ mergedCnt >= 3

(* ---- C13 ---- *)

\* the stats sent that are no file stat (a worker's stat has files = 1)
DirStatCount == sentCnt - sentSum.files

\* filepath.Walk has returned: every entry was visited or an error ended it
WalkFinished == pos > Len(tree) \/ <<"walk", pos>> \in errlog

\* C13 (directory-count stat): in every run of traverse the producer sends
\* exactly one stat that is no file stat, carrying the number of
\* directories it counted: none while it walks and none per directory, one
\* once the walk has finished, with or without an error, and only then it
\* closes ch; no run ends with the producer started and that stat unsent.
DirectoryStatOnce ==
    /\ walkPc \in {"unstarted", "walking", "sendDirs"} =>
          (DirStatCount = 0 /\ sentSum.dirs = 0 /\ ~chClosed)
    /\ walkPc \in {"closeCh", "done"} =>
          /\ WalkFinished
          /\ DirStatCount = 1
          /\ sentSum.dirs = dirs
          /\ dirs = Cardinality(DirsOf(tree) \cap BeforeError(tree))
    /\ (exited /\ walkPc # "unstarted") => DirStatCount = 1

(* ---- C14 ---- *)

\* C14 (task-queue ownership): ch goes from open to closed in a step of the
\* producer alone, the one that ends walk, and never back; no close of a
\* closed channel happens; when ch is closed the producer has sent every
\* task it will send, and nothing is sent on ch afterwards.
TaskQueueOwnership ==
    /\ [][chClosed' # chClosed =>
            /\ ~chClosed
            /\ walkPc = "closeCh" /\ walkPc' = "done"
            /\ pc' = pc /\ wpc' = wpc /\ aggPc' = aggPc]_vars
    /\ [][chClosed => (emitted' = emitted /\ Len(ch') <= Len(ch))]_vars
    /\ [](panic # "close of closed channel")
    /\ [](chClosed =>
            /\ walkPc = "done"
            /\ emitted = FilesOf(tree) \cap BeforeError(tree))

\* ch has been closed after two tasks were sent on it
TaskQueueOwnershipWitness ==
    /\ chClosed /\ walkPc = "done"
    /\ Cardinality(emitted) >= 2
    /\ panic = "none"

(* ---- C15 ---- *)

\* the workers that have been started are exactly 1..n
WorkersStarted(n) == \A w \in WorkerIds : (wpc[w] # "unstarted") <=> (w <= n)

RaceFreeAggregation ==
    /\ [][stats' # stats =>
            /\ aggPc = "running" /\ aggPc' = "running"
            /\ statsCh # <<>> /\ statsCh' = Tail(statsCh)
            /\ mergedCnt' = mergedCnt + 1
            /\ pc' = pc /\ wpc' = wpc /\ walkPc' = walkPc]_vars
    /\ [][(pc = "statsWait" /\ pc' = "report") =>
            /\ statsClosed /\ statsCh = <<>> /\ aggPc = "done"
            /\ result' = stats]_vars
    /\ [](TraverseReturned =>
            /\ statsClosed /\ statsCh = <<>> /\ aggPc = "done"
            /\ result = stats)

\* traverse has returned a total into which three stats were merged
RaceFreeAggregationWitness ==
    /\ pc = "report"
    /\ aggPc = "done"
    /\ mergedCnt >= 3
    /\ result.files >= 2 /\ result.dirs >= 1

(* ---- C17 ---- *)

\* the file worker w holds
Held(w) == tree[wfile[w]]

\* C17 (close-failure policy): a worker goes on to send a stat for the file
\* it holds exactly when open, read and close all succeeded, and the stat
\* it sends is files = 1, dirs = 0, bytes = the size of the file; after a
\* failed open, read or close (a file read to the end whose close failed
\* included) it logs the failure, sends nothing and takes the next task; a
\* worker ends only at a receive on the closed, drained task queue.
CloseFailurePolicy ==
    /\ [][\A w \in WorkerIds :
            /\ (wpc[w] = "read" /\ wpc'[w] # "read") =>
                  IF Held(w).res = "ok"
                  THEN /\ wpc'[w] = "send"
                       /\ wn'[w] = Held(w).size
                       /\ errlog' = errlog
                       /\ statsCh' = statsCh
                  ELSE /\ wpc'[w] = "recv"
                       /\ \E l \in {"open", "read", "close"} :
                             /\ <<l, wfile[w]>> \notin errlog
                             /\ errlog' = errlog \cup {<<l, wfile[w]>>}
                       /\ statsCh' = statsCh /\ sentCnt' = sentCnt
                       /\ wg' = wg
            /\ (wpc[w] = "send" /\ wpc'[w] # "send") =>
                  /\ wpc'[w] = "recv"
                  /\ statsCh' = Append(statsCh, Stats(1, 0, Held(w).size))
                  /\ sentCnt' = sentCnt + 1
            /\ (wpc[w] # "done" /\ wpc'[w] = "done") =>
                  (wpc[w] = "recv" /\ chClosed /\ ch = <<>>)]_vars
    /\ [][sentSum'.files # sentSum.files =>
            \E w \in WorkerIds : wpc[w] = "send" /\ wpc'[w] = "recv"]_vars
    /\ [](\A w \in WorkerIds : wpc[w] = "send" => Held(w).res = "ok")

\* the only worker has logged a close failure, gone on, and now holds the
\* stat of the next file
CloseFailurePolicyWitness ==
    /\ workers = 1
    /\ \E i \in FilesOf(tree) :
          /\ tree[i].res = "closefail"
          /\ <<"close", i>> \in errlog
          /\ wpc[1] = "send" /\ wfile[1] > i
    /\ sentSum.files = 0

(* ---- C18 ---- *)

\* runs with at least two workers over walks in which at most one file hangs
InitHang ==
    /\ workers \in 2..MaxWorkers
    /\ nargs = 1
    /\ tree \in HangTrees
    /\ outExists = TRUE
    /\ RunStart /\ MergeIdle

\* fair scheduling of whatever can take a step; the read of the hanging
\* file never can
SpecHang ==
    /\ InitHang /\ [][Next]_vars
    /\ WF_vars(Next)

\* worker w is inside the read that never returns
StalledAt(w) == wpc[w] = "read" /\ Held(w).res = "hang"

Stalled == \E w \in 1..workers : StalledAt(w)

\* everything but the hanging file has been dealt with: the walk is over,
\* every path sent was received once, every other worker has left its
\* loop, and every stat sent has been merged into the total
OthersServed ==
    /\ walkPc = "done" /\ chClosed /\ ch = <<>>
    /\ emitted = FilesOf(tree) \cap BeforeError(tree)
    /\ \A i \in emitted : takes[i] = 1
    /\ \A w \in 1..workers : ~StalledAt(w) => wpc[w] = "done"
    /\ statsCh = <<>> /\ mergedCnt = sentCnt
    /\ stats = Expected(tree)

\* C18 (a stalled worker does not affect the others): with at least two
\* workers, once one worker hangs in the read of a file the worker stays
\* there, and under fair scheduling every other path the producer sends is
\* still received by another worker and every stat merged by the
\* aggregator; traverse does not return.
StalledWorkerIsolated ==
    /\ [][\A w \in WorkerIds : StalledAt(w) => StalledAt(w)']_vars
    /\ [](Stalled => ~TraverseReturned /\ ~statsClosed)
    /\ (Stalled ~> OthersServed)

\* one worker hangs in the first file of a directory; another worker has
\* read the file after it, and its stat and the directory stat are merged
StalledWorkerIsolatedWitness ==
    /\ Stalled /\ OthersServed
    /\ \E w \in 1..workers, i \in OkFilesOf(tree) :
          StalledAt(w) /\ wfile[w] < i /\ takes[i] = 1
    /\ stats.files >= 1 /\ stats.dirs >= 1
    /\ mergedCnt >= 2

(* ---- C19 ---- *)

\* the entries on which the walk reports an error: the entry given to the
\* callback with an error and, for a listing error, the directory it is
\* about (the call before it)
ErrorPaths(t) ==
    ErrsOf(t) \cup {i - 1 : i \in {j \in ErrsOf(t) : t[j] = ListErrEntry}}

\* C19 (an entry with a traversal error contributes nothing): no task is
\* ever emitted for an entry on which the walk reports an error, and once
\* traverse has returned (at least one worker) the files, dirs and bytes of
\* the result count only entries on which no error was reported, a
\* directory whose listing failed after it was visited not being counted.
ErrorEntryContributesNothing ==
    /\ emitted \cap ErrorPaths(tree) = {}
    /\ (workers >= 1 /\ TraverseReturned) =>
          LET counted == BeforeError(tree) \ ErrorPaths(tree)
          IN  /\ result.files = Cardinality(OkFilesOf(tree) \cap counted)
              /\ result.dirs = Cardinality(DirsOf(tree) \cap counted)
              /\ result.bytes = SumSizes(tree, OkFilesOf(tree) \cap counted)

(* ---- C20 ---- *)

\* the walk met an error
WalkFailed == \E i \in ErrsOf(tree) : <<"walk", i>> \in errlog

\* C20 (partial results after a traversal error): when the walk reports an
\* error, the paths sent before it stay sent and are each received once;
\* with at least one worker traverse still returns under fair scheduling,
\* and its result counts the readable files visited before the error,
\* their bytes, and the directories counted before the error.
PartialResults ==
    /\ [][emitted \subseteq emitted']_vars
    /\ [](WalkFailed => emitted = FilesOf(tree) \cap BeforeError(tree))
    /\ ((workers >= 1 /\ WalkFailed) ~> TraverseReturned)
    /\ []((workers >= 1 /\ WalkFailed /\ TraverseReturned) =>
            /\ \A i \in FilesOf(tree) \cap BeforeError(tree) : takes[i] = 1
            /\ result = Expected(tree))

\* traverse has returned after a walk that counted a directory, sent a
\* readable file and then met an error
PartialResultsWitness ==
    /\ workers >= 1 /\ WalkFailed /\ TraverseReturned
    /\ result.files >= 1 /\ result.dirs >= 1 /\ result.bytes >= 1
    /\ Len(tree) = MaxEntries

====
